---- MODULE Spec2Model ----
(***************************************************************************)
(* A model of 2p-2runner.py: the section slicers html_slice and            *)
(* markdown_slice (strings are sequences of one-character strings, indexed *)
(* from 0 as in Python), the writer export_text, and the four batch modes  *)
(* of main (text_conversion with its worker pool, export_long, pick_rand,  *)
(* match_list).                                                            *)
(***************************************************************************)
EXTENDS Integers, Sequences, FiniteSets

VARIABLES
    \* ---- slicers (html_slice, markdown_slice) ----
    doc,        \* the parts the input text was assembled from
    content,    \* the argument of the slicer: [none, text]
    test2,      \* html_slice's working substring
    export,     \* the value returned / handed to export_text: [none, text]
    spc,        \* position inside the slicer or the writer
    \* ---- export_text ----
    out_file,   \* the output file on disk: [exists, text]
    prev_file,  \* the output file as it was before export_text was called
    \* ---- batch modes ----
    mode, conversion_tool, sub, n, listing, fattr, quest_list,
    pc, num, num_file, picked_files, unit,
    total_files_queued, total_files_processed,
    out, reads, error, write_failed

sliceVars == <<doc, content, test2, export, spc>>
writeVars == <<out_file, prev_file>>
batchVars == <<mode, conversion_tool, sub, n, listing, fattr, quest_list,
               pc, num, num_file, picked_files, unit,
               total_files_queued, total_files_processed,
               out, reads, error, write_failed>>
vars == <<sliceVars, writeVars, batchVars>>

----------------------------------------------------------------------------
(* Bounds of the model. *)

\* longest Description body (in characters) html_slice is given
MaxBody == 4
\* length of test2 past which the growing string exhausts memory
MaxGrow == 12
\* most sections in a markdown document
MaxSecs == 3
\* longest text handed to export_text
MaxText == 3
\* most entries in the input directory
MaxFiles == 2
\* worker processes in the pool (cpu_count() - 1)
NumWorkers == 2

----------------------------------------------------------------------------
(* Python values and string primitives. *)

\* Python's None, and a present str
NoneVal == [none |-> TRUE, text |-> <<>>]
Some(t) == [none |-> FALSE, text |-> t]

MinOf(S) == CHOOSE x \in S : \A y \in S : x <= y

\* s.find(sub, start): the lowest 0-based index >= start where sub occurs, or -1
Find(s, sb, start) ==
    LET from == IF start < 0 THEN (IF start + Len(s) < 0 THEN 0 ELSE start + Len(s))
                ELSE start
        cands == {p \in from..(Len(s) - Len(sb)) : SubSeq(s, p + 1, p + Len(sb)) = sb}
    IN  IF cands = {} THEN -1 ELSE MinOf(cands)

\* s[a:b]: negative indices count from the end, both are clamped to 0..len(s)
Slice(s, a, b) ==
    LET norm(x) == IF x < 0 THEN (IF x + Len(s) < 0 THEN 0 ELSE x + Len(s))
                   ELSE (IF x > Len(s) THEN Len(s) ELSE x)
        lo == norm(a)
        hi == norm(b)
    IN  IF lo >= hi THEN <<>> ELSE SubSeq(s, lo + 1, hi)

\* s.replace(old, new): every non-overlapping occurrence, left to right
RECURSIVE Replace(_, _, _)
Replace(s, old, new) ==
    LET p == Find(s, old, 0)
    IN  IF p = -1 THEN s
        ELSE Slice(s, 0, p) \o new \o Replace(Slice(s, p + Len(old), Len(s)), old, new)

\* all sequences over S of length at most k
RECURSIVE SeqsUpTo(_, _)
SeqsUpTo(S, k) ==
    IF k = 0 THEN {<<>>}
    ELSE LET shorter == SeqsUpTo(S, k - 1)
         IN  shorter \cup {Append(t, c) : t \in shorter, c \in S}

----------------------------------------------------------------------------
(* html_slice *)

\* '<h2 class="heading-size-3">Description</h2>'
DescriptionHeading ==
    <<"<","h","2"," ","c","l","a","s","s","=","\"","h","e","a","d","i","n","g",
      "-","s","i","z","e","-","3","\"",">","D","e","s","c","r","i","p","t","i",
      "o","n","<","/","h","2",">">>
\* the literal 43 of content[i + 43:len(content)]
HeadingSkip == 43
\* '<h2'
H2 == <<"<","h","2">>
LT == <<"<">>
GT == <<">">>

\* lines 320-330: locate the heading, cut the section; None when content is None
\* (the AttributeError is caught) or the heading is missing
html_section(c) ==
    IF c.none THEN NoneVal
    ELSE LET i == Find(c.text, DescriptionHeading, 0)
         IN  IF i = -1 THEN NoneVal
             ELSE LET test == Slice(c.text, i + HeadingSkip, Len(c.text))
                      j == Find(test, H2, 0)
                  IN  Some(Slice(test, 0, j))

\* line 331: the loop condition
strip_continues(t) == Find(t, LT, 0) > 0

\* lines 332-334: one iteration of the loop
strip_once(t) ==
    LET k == Find(t, LT, 0)
        l == Find(t, GT, 0)
    IN  Slice(t, 0, k) \o Slice(t, l + 1, Len(t))

HtmlBodies == SeqsUpTo({"a", "<", ">"}, MaxBody)
HtmlDocs ==
    [pre : {<<>>, <<"x">>}, heading : BOOLEAN, body : HtmlBodies,
     tail : {<<>>, <<"<","h","2",">","T">>}, unreadable : BOOLEAN]
HtmlText(d) ==
    d.pre \o (IF d.heading THEN DescriptionHeading ELSE <<>>) \o d.body \o d.tail

----------------------------------------------------------------------------
(* markdown_slice *)

\* '## Description', '## Progress', '## Completion' and their linked forms
MdDescription == <<"#","#"," ","D","e","s","c","r","i","p","t","i","o","n">>
MdProgress == <<"#","#"," ","P","r","o","g","r","e","s","s">>
MdCompletion == <<"#","#"," ","C","o","m","p","l","e","t","i","o","n">>
JsLink == <<"]","(","j","a","v","a","s","c","r","i","p","t",":",")">>
MdProgressLinked == <<"#","#"," ","[","P","r","o","g","r","e","s","s">> \o JsLink
MdCompletionLinked ==
    <<"#","#"," ","[","C","o","m","p","l","e","t","i","o","n">> \o JsLink
\* a heading that is none of the three sections
MdOther == <<"#","#"," ","R","e","w","a","r","d","s">>
HashHash == <<"#","#">>
\* the literals 14, 11 and 13 of the three slices
DescriptionSkip == 14
ProgressSkip == 11
CompletionSkip == 13

\* a slice that starts one character early, inside the heading
append_section_early(sliced_text, c, j, jj, skip) ==
    IF j # -1 THEN sliced_text \o Slice(c, j + skip - 1, jj) ELSE sliced_text

\* lines 368-369 and 376-377: append an optional section when its heading exists
append_section(sliced_text, c, j, jj, skip) ==
    IF j # -1 THEN sliced_text \o Slice(c, j + skip, jj) ELSE sliced_text

\* lines 346-378
markdown_slice(c) ==
    IF c.none THEN NoneVal
    ELSE LET i == Find(c.text, MdDescription, 0)
             ii == Find(c.text, HashHash, i + 1)
         IN  IF i = -1 THEN NoneVal
             ELSE LET s0 == Slice(c.text, i + DescriptionSkip, ii)
                      c1 == Replace(c.text, MdProgressLinked, MdProgress)
                      j == Find(c1, MdProgress, 0)
                      jj == Find(c1, HashHash, j + 1)
                      s1 == append_section(s0, c1, j, jj, ProgressSkip)
                      c2 == Replace(c1, MdCompletionLinked, MdCompletion)
                      k == Find(c2, MdCompletion, 0)
                      kk == Find(c2, HashHash, k + 1)
                  IN  Some(append_section(s1, c2, k, kk, CompletionSkip))

\* A markdown document is a preamble, then sections (heading kind, body), then
\* possibly one more heading that ends the last section.
MdKinds == {"D", "P", "PL", "C", "CL", "O"}
MdHeading(kind) ==
    CASE kind = "D" -> MdDescription
      [] kind = "P" -> MdProgress
      [] kind = "PL" -> MdProgressLinked
      [] kind = "C" -> MdCompletion
      [] kind = "CL" -> MdCompletionLinked
      [] OTHER -> MdOther
Digits == <<"1", "2", "3", "4", "5", "6">>
\* the body of the section at position p: empty, or a line naming the position
MdBodies(p) == {<<>>, <<"\n", Digits[p], "\n">>}
RECURSIVE MdSectionsOfLen(_)
MdSectionsOfLen(m) ==
    IF m = 0 THEN {<<>>}
    ELSE {Append(s, [kind |-> kd, body |-> b]) :
            s \in MdSectionsOfLen(m - 1), kd \in MdKinds, b \in MdBodies(m)}
MdSections == UNION {MdSectionsOfLen(m) : m \in 0..MaxSecs}
MdDocs == [pre : {<<>>, <<"x", "\n">>}, secs : MdSections, terminated : BOOLEAN]
RECURSIVE MdRender(_)
MdRender(secs) ==
    IF secs = <<>> THEN <<>>
    ELSE MdHeading(Head(secs).kind) \o Head(secs).body \o MdRender(Tail(secs))
MdText(d) ==
    d.pre \o MdRender(d.secs) \o (IF d.terminated THEN MdOther ELSE <<>>)

----------------------------------------------------------------------------
(* The slicers as state machines. *)

IdleWrite ==
    /\ out_file = [exists |-> FALSE, text |-> <<>>]
    /\ prev_file = [exists |-> FALSE, text |-> <<>>]
IdleBatch ==
    /\ mode = "none" /\ conversion_tool = "none" /\ sub = "none" /\ n = 0
    /\ listing = <<>> /\ fattr = <<>> /\ quest_list = {} /\ pc = "idle"
    /\ num = 0 /\ num_file = 0 /\ picked_files = {} /\ unit = <<>>
    /\ total_files_queued = 0 /\ total_files_processed = 0
    /\ out = <<>> /\ reads = {} /\ error = "none" /\ write_failed = FALSE

InitHtml ==
    /\ doc \in HtmlDocs
    /\ content = IF doc.unreadable THEN NoneVal ELSE Some(HtmlText(doc))
    /\ test2 = <<>>
    /\ export = NoneVal
    /\ spc = "start"
    /\ IdleWrite /\ IdleBatch

\* lines 320-330
html_slice_begin ==
    /\ spc = "start"
    /\ LET sec == html_section(content)
       IN  IF sec.none
           THEN /\ spc' = "done"
                /\ UNCHANGED test2
           ELSE /\ spc' = "strip"
                /\ test2' = sec.text
    /\ export' = NoneVal
    /\ UNCHANGED <<doc, content, writeVars, batchVars>>

\* lines 331-334: one pass of the while loop; a string grown past MaxGrow
\* stands for the MemoryError the doubling string ends in
html_strip_iter ==
    /\ spc = "strip"
    /\ strip_continues(test2)
    /\ LET t == strip_once(test2)
       IN  IF Len(t) > MaxGrow
           THEN /\ spc' = "exhausted"
                /\ UNCHANGED test2
           ELSE /\ spc' = "strip"
                /\ test2' = t
    /\ UNCHANGED <<doc, content, export, writeVars, batchVars>>

\* lines 331 and 335: the loop condition fails, test2 is returned
html_strip_exit ==
    /\ spc = "strip"
    /\ ~strip_continues(test2)
    /\ export' = Some(test2)
    /\ spc' = "done"
    /\ UNCHANGED <<doc, content, test2, writeVars, batchVars>>

NextHtml == html_slice_begin \/ html_strip_iter \/ html_strip_exit
SpecHtml == InitHtml /\ [][NextHtml]_vars

InitMd ==
    /\ doc \in MdDocs
    /\ content = Some(MdText(doc))
    /\ test2 = <<>>
    /\ export = NoneVal
    /\ spc = "start"
    /\ IdleWrite /\ IdleBatch

markdown_slice_call ==
    /\ spc = "start"
    /\ export' = markdown_slice(content)
    /\ spc' = "done"
    /\ UNCHANGED <<doc, content, test2, writeVars, batchVars>>

NextMd == markdown_slice_call
SpecMd == InitMd /\ [][NextMd]_vars

----------------------------------------------------------------------------
(* export_text, at the level of the characters written. *)

Absent == [exists |-> FALSE, text |-> <<>>]
File(t) == [exists |-> TRUE, text |-> t]
Texts == SeqsUpTo({"a", "b"}, MaxText)

InitWrite ==
    /\ export \in {Some(t) : t \in Texts}
    /\ prev_file \in {Absent} \cup {File(t) : t \in Texts}
    /\ out_file = prev_file
    /\ spc = "start"
    /\ doc = <<>> /\ content = NoneVal /\ test2 = <<>>
    /\ IdleBatch

\* line 311, file.open('w'): the file is created or truncated; when the open
\* fails the exception is caught (lines 313-315) and the file is as it was
export_open ==
    /\ spc = "start"
    /\ \/ /\ out_file' = File(<<>>)
          /\ spc' = "opened"
       \/ /\ out_file' = out_file
          /\ spc' = "returned"
    /\ UNCHANGED <<doc, content, test2, export, prev_file, batchVars>>

\* line 312, f.write(export), and the close at the end of the with block: all
\* of the text reaches the file, or the write fails after m characters and the
\* exception is caught (lines 313-315); nothing removes the file
export_write ==
    /\ spc = "opened"
    /\ \/ out_file' = File(export.text)
       \/ \E m \in 0..(Len(export.text) - 1) :
             out_file' = File(SubSeq(export.text, 1, m))
    /\ spc' = "returned"
    /\ UNCHANGED <<doc, content, test2, export, prev_file, batchVars>>

NextWrite == export_open \/ export_write
SpecWrite == InitWrite /\ [][NextWrite]_vars

\* C10: after export_text returns, the output file holds the complete text, or
\* does not exist, or is as it was before the call.
C10_WriteAllOrNothing ==
    spc = "returned"
        => \/ out_file = File(export.text)
           \/ ~out_file.exists
           \/ out_file = prev_file

----------------------------------------------------------------------------
(* The batch modes: the input directory, the output directory, the pool. *)

\* the reserved file name of lines 213, 256, 296 and 397
DS_Store == ".DS_Store"
OtherNames == <<"a.txt", "b.txt", "c.txt", "d.txt">>
Names == {DS_Store} \cup {OtherNames[i] : i \in 1..MaxFiles}

\* the directory listings: the entries of the input directory in the order
\* iterdir() yields them
RECURSIVE ListingsOfLen(_)
ListingsOfLen(m) ==
    IF m = 0 THEN {<<>>}
    ELSE {Append(l, f) : l \in ListingsOfLen(m - 1), f \in Names}
Distinct(l) == \A p, q \in 1..Len(l) : p # q => l[p] # l[q]
Listings == {l \in UNION {ListingsOfLen(m) : m \in 0..MaxFiles} : Distinct(l)}
Entries(l) == {l[p] : p \in 1..Len(l)}

\* what the run can observe of a file: whether it opens and decodes, whether
\* its text is longer than the threshold of export_long, and what the chosen
\* conversion makes of its text
Attrs == [readable : BOOLEAN, long : BOOLEAN, result : {"present", "absent", "raises"}]
DefaultAttr == [readable |-> TRUE, long |-> TRUE, result |-> "present"]

\* the attributes a run in mode m with the tool reads: the others are left at
\* their defaults (html2text and html_slice can raise, markdown_slice cannot)
AttrsRead(m, tool) ==
    {a \in Attrs :
        /\ m # "1" => a.result = "present"
        /\ m # "2" => a.long
        /\ tool \in {"3", "x"} => a.result # "raises"
        /\ ~a.readable => (a.result = "present" /\ a.long)}

\* a test that lets the reserved name through
never_reserved(f) == FALSE

\* lines 213, 256, 296, 397: file.name == '.DS_Store'
is_reserved(f) == f = DS_Store

\* lines 227-238: the text of the file, or None when reading fails
import_text(f) == IF fattr[f].readable THEN "text" ELSE "None"

\* lines 308-316 seen from the directory: the file is written in full, or the
\* open fails and nothing changes, or the write fails and a part is left
export_text(o, f) ==
    {[o EXCEPT ![f] = "full"], o, [o EXCEPT ![f] = "partial"]}

\* lines 215-222 on the text read: the export value of the chosen tool
\*   "None"   no heading, a caught AttributeError, or content is None
\*   "raises" an exception the tool does not catch (html_slice's growing
\*            string, html2text failing with other than AttributeError)
\*   "exit"   sys.exit() of line 222
conversion(tool, f) ==
    IF tool \notin {"1", "2", "3"} THEN "exit"
    ELSE IF import_text(f) = "None" THEN "None"
    ELSE IF fattr[f].result = "raises" /\ tool # "3" THEN "raises"
    ELSE IF fattr[f].result = "present" THEN "text"
    ELSE "None"

\* a counter that is not reset when a run starts
conversion_progress_no_reset(status, processed) ==
    IF status = "init" THEN processed ELSE processed + 1

\* lines 197-203: the new value of total_files_processed
conversion_progress(status, processed) ==
    IF status = "init" THEN 0 ELSE processed + 1

\* dir_list[0::n] of line 285, for n # 0: the positions 0, n, 2n, ... below
\* len(dir_list) when n > 0, and position 0 alone when n < 0
stride_pick(l, k) ==
    IF k > 0 THEN {l[p] : p \in {q \in 1..Len(l) : (q - 1) % k = 0}}
    ELSE IF Len(l) > 0 THEN {l[1]} ELSE {}

Init ==
    /\ mode \in {"1", "2", "3", "4"}
    /\ listing \in Listings
    /\ conversion_tool \in (IF mode = "1" THEN {"1", "2", "3", "x"} ELSE {"none"})
    /\ sub \in (IF mode = "3" THEN {"r", "s", "q"} ELSE {"none"})
    /\ n \in (IF mode = "3" /\ sub # "q" THEN -1..(MaxFiles + 1) ELSE {0})
    /\ quest_list \in (IF mode = "4"
                       THEN [none : {FALSE}, names : SUBSET Names]
                                \cup {[none |-> TRUE, names |-> {}]}
                       ELSE {[none |-> FALSE, names |-> {}]})
    /\ fattr \in [Names -> AttrsRead(mode, conversion_tool)]
    /\ \A f \in Names :
          (f \notin Entries(listing) \/ f = DS_Store) => fattr[f] = DefaultAttr
    /\ pc = "start"
    /\ num = 0 /\ num_file = 0
    /\ picked_files = {}
    /\ unit = [f \in Names |-> "none"]
    /\ total_files_queued = 0
    \* the counter is a module global: a run of text_conversion finds in it
    \* what the run before left
    /\ total_files_processed \in 0..1
    /\ out = [f \in Names |-> "absent"]
    /\ reads = {}
    /\ error = "none"
    /\ write_failed = FALSE
    /\ doc = <<>> /\ content = NoneVal /\ test2 = <<>> /\ export = NoneVal
    /\ spc = "idle"
    /\ IdleWrite

fsVars == <<out, reads, write_failed>>
poolVars == <<unit, total_files_queued, total_files_processed>>
inputVars == <<mode, conversion_tool, sub, n, listing, fattr, quest_list>>
idleVars == <<sliceVars, writeVars>>

\* ---- mode 1: text_conversion and its pool ----

\* line 182: conversion_progress(total=total, status='init')
text_conversion_init ==
    /\ mode = "1" /\ pc = "start"
    /\ total_files_processed' = conversion_progress("init", total_files_processed)
    /\ pc' = "dispatch"
    /\ UNCHANGED <<inputVars, num, num_file, picked_files, unit, total_files_queued,
                   fsVars, error, idleVars>>

\* lines 183-189: one pass of the dispatch loop
text_conversion_dispatch ==
    /\ mode = "1" /\ pc = "dispatch"
    /\ num < Len(listing)
    /\ num' = num + 1
    /\ total_files_queued' = num + 1
    /\ unit' = [unit EXCEPT ![listing[num + 1]] = "queued"]
    /\ UNCHANGED <<inputVars, pc, num_file, picked_files, total_files_processed,
                   fsVars, error, idleVars>>

Running == {f \in Names : unit[f] = "running"}
\* the pool hands its tasks out in the order they were submitted
NextQueued(f) ==
    \E p \in 1..Len(listing) :
        /\ listing[p] = f /\ unit[f] = "queued"
        /\ \A q \in 1..(p - 1) : unit[listing[q]] # "queued"

\* a free worker takes the next task: lines 213-214 of conversion_process
worker_start(f) ==
    /\ mode = "1"
    /\ NextQueued(f)
    /\ Cardinality(Running) < NumWorkers
    /\ unit' = [unit EXCEPT ![f] = "running"]
    /\ reads' = IF is_reserved(f) THEN reads ELSE reads \cup {f}
    /\ UNCHANGED <<inputVars, pc, num, num_file, picked_files, total_files_queued,
                   total_files_processed, out, write_failed, error, idleVars>>

\* lines 215-224 of conversion_process, to the end of the task: the task
\* returns ("done"), raises ("failed") or takes its worker down with
\* sys.exit() ("lost": no result is ever delivered for it)
worker_finish(f) ==
    /\ mode = "1"
    /\ unit[f] = "running"
    /\ IF is_reserved(f)
       THEN /\ unit' = [unit EXCEPT ![f] = "done"]
            /\ UNCHANGED <<out, write_failed>>
       ELSE LET e == conversion(conversion_tool, f)
            IN  IF e = "text"
                THEN /\ \E o \in export_text(out, f) :
                           /\ out' = o
                           /\ write_failed' = (write_failed \/ o[f] # "full")
                     /\ unit' = [unit EXCEPT ![f] = "done"]
                ELSE /\ unit' = [unit EXCEPT ![f] =
                                    CASE e = "None" -> "done"
                                      [] e = "raises" -> "failed"
                                      [] OTHER -> "lost"]
                     /\ UNCHANGED <<out, write_failed>>
    /\ UNCHANGED <<inputVars, pc, num, num_file, picked_files, total_files_queued,
                   total_files_processed, reads, error, idleVars>>

\* the pool's result thread delivers a returned task to the callback of line
\* 188: conversion_progress(result)
callback(f) ==
    /\ mode = "1"
    /\ unit[f] = "done"
    /\ unit' = [unit EXCEPT ![f] = "counted"]
    /\ total_files_processed' = conversion_progress("result", total_files_processed)
    /\ UNCHANGED <<inputVars, pc, num, num_file, picked_files, total_files_queued,
                   fsVars, error, idleVars>>

\* a join that does not wait
pool_not_joined == TRUE

\* lines 190-191: pool.close(); pool.join() returns once every submitted task
\* has delivered its result and the result thread has run the callbacks
pool_drained == \A f \in Names : unit[f] \in {"none", "counted", "failed"}

\* lines 190-194
text_conversion_join ==
    /\ mode = "1" /\ pc = "dispatch"
    /\ num = Len(listing)
    /\ pool_drained
    /\ pc' = "complete"
    /\ UNCHANGED <<inputVars, num, num_file, picked_files, poolVars, fsVars, error,
                   idleVars>>

\* ---- the sequential modes ----

\* lines 298-301 and 399-402: read the file and, when it could be read, write it
copy_file(f) ==
    /\ reads' = reads \cup {f}
    /\ IF import_text(f) # "None"
       THEN /\ \E o \in export_text(out, f) :
                  /\ out' = o
                  /\ write_failed' = (write_failed \/ o[f] # "full")
            /\ num_file' = num_file + 1
       ELSE UNCHANGED <<out, write_failed, num_file>>

\* lines 248-262: one pass of export_long's loop; len(content) of line 258
\* raises TypeError when import_text returned None
export_long_step ==
    /\ mode = "2" /\ pc \in {"start", "loop"}
    /\ num < Len(listing)
    /\ num' = num + 1
    /\ LET f == listing[num + 1]
       IN  IF is_reserved(f)
           THEN /\ pc' = "loop"
                /\ UNCHANGED <<fsVars, num_file, error>>
           ELSE IF import_text(f) = "None"
           THEN /\ reads' = reads \cup {f}
                /\ pc' = "crashed"
                /\ error' = "TypeError: object of type 'NoneType' has no len()"
                /\ UNCHANGED <<out, write_failed, num_file>>
           ELSE IF fattr[f].long
           THEN /\ copy_file(f)
                /\ pc' = "loop"
                /\ UNCHANGED error
           ELSE /\ reads' = reads \cup {f}
                /\ pc' = "loop"
                /\ UNCHANGED <<out, write_failed, num_file, error>>
    /\ UNCHANGED <<inputVars, picked_files, poolVars, idleVars>>

\* lines 263-266
export_long_report ==
    /\ mode = "2" /\ pc \in {"start", "loop"}
    /\ num = Len(listing)
    /\ pc' = "complete"
    /\ UNCHANGED <<inputVars, num, num_file, picked_files, poolVars, fsVars, error,
                   idleVars>>

\* lines 277-287: the selection. random.sample raises ValueError for n < 0 and
\* for n > len(dir_list); a slice with step 0 raises ValueError; any other
\* answer than 'r' or 's' returns
pick_select ==
    /\ mode = "3" /\ pc = "start"
    /\ IF sub = "r"
       THEN IF n < 0 \/ n > Len(listing)
            THEN /\ pc' = "crashed"
                 /\ error' = "ValueError: Sample larger than population or is negative"
                 /\ UNCHANGED picked_files
            ELSE /\ picked_files' \in {S \in SUBSET Entries(listing) : Cardinality(S) = n}
                 /\ pc' = "loop"
                 /\ UNCHANGED error
       ELSE IF sub = "s"
       THEN IF n = 0
            THEN /\ pc' = "crashed"
                 /\ error' = "ValueError: slice step cannot be zero"
                 /\ UNCHANGED picked_files
            ELSE /\ picked_files' = stride_pick(listing, n)
                 /\ pc' = "loop"
                 /\ UNCHANGED error
       ELSE /\ pc' = "complete"
            /\ UNCHANGED <<picked_files, error>>
    /\ UNCHANGED <<inputVars, num, num_file, poolVars, fsVars, idleVars>>

\* lines 289-301: one pass of pick_rand's loop
pick_step ==
    /\ mode = "3" /\ pc = "loop"
    /\ num < Len(listing)
    /\ num' = num + 1
    /\ LET f == listing[num + 1]
       IN  IF ~is_reserved(f) /\ f \in picked_files
           THEN copy_file(f)
           ELSE UNCHANGED <<fsVars, num_file>>
    /\ UNCHANGED <<inputVars, pc, picked_files, poolVars, error, idleVars>>

\* lines 302-304: print(+ f'...') applies unary plus to a str
pick_report ==
    /\ mode = "3" /\ pc = "loop"
    /\ num = Len(listing)
    /\ pc' = "crashed"
    /\ error' = "TypeError: bad operand type for unary +: 'str'"
    /\ UNCHANGED <<inputVars, num, num_file, picked_files, poolVars, fsVars, idleVars>>

\* lines 390-402: one pass of match_list's loop; quest_list is the text of the
\* list file (here: the names that occur in it) or None, and 'in None' of line
\* 398 raises TypeError
match_step ==
    /\ mode = "4" /\ pc \in {"start", "loop"}
    /\ num < Len(listing)
    /\ num' = num + 1
    /\ LET f == listing[num + 1]
       IN  IF is_reserved(f)
           THEN /\ pc' = "loop"
                /\ UNCHANGED <<fsVars, num_file, error>>
           ELSE IF quest_list.none
           THEN /\ pc' = "crashed"
                /\ error' = "TypeError: argument of type 'NoneType' is not iterable"
                /\ UNCHANGED <<fsVars, num_file>>
           ELSE IF f \in quest_list.names
           THEN /\ copy_file(f)
                /\ pc' = "loop"
                /\ UNCHANGED error
           ELSE /\ pc' = "loop"
                /\ UNCHANGED <<fsVars, num_file, error>>
    /\ UNCHANGED <<inputVars, picked_files, poolVars, idleVars>>

\* lines 403-406
match_report ==
    /\ mode = "4" /\ pc \in {"start", "loop"}
    /\ num = Len(listing)
    /\ pc' = "complete"
    /\ UNCHANGED <<inputVars, num, num_file, picked_files, poolVars, fsVars, error,
                   idleVars>>

Next ==
    \/ text_conversion_init
    \/ text_conversion_dispatch
    \/ \E f \in Names : worker_start(f)
    \/ \E f \in Names : worker_finish(f)
    \/ \E f \in Names : callback(f)
    \/ text_conversion_join
    \/ export_long_step
    \/ export_long_report
    \/ pick_select
    \/ pick_step
    \/ pick_report
    \/ match_step
    \/ match_report

Spec == Init /\ [][Next]_vars

----------------------------------------------------------------------------
(* Claims about html_slice. *)

\* the first '<' of t has no '>' after it
FirstTagUnterminated(t) ==
    LET k == Find(t, LT, 0)
    IN  k # -1 /\ Find(t, GT, k) = -1

\* C1: when the section text reaches an opening '<' that no '>' follows, the
\* stripping loop stops there and html_slice returns the substring as it is.
C1_UnterminatedTagStops ==
    [][(spc = "strip" /\ FirstTagUnterminated(test2))
          => (spc' = "done" /\ export' = Some(test2))]_vars

\* every '<' of t opens a span that a later '>' closes, and no '>' stands alone
RECURSIVE TagsClosed(_, _)
TagsClosed(t, inTag) ==
    IF t = <<>> THEN ~inTag
    ELSE IF Head(t) = "<" THEN ~inTag /\ TagsClosed(Tail(t), TRUE)
    ELSE IF Head(t) = ">" THEN inTag /\ TagsClosed(Tail(t), FALSE)
    ELSE TagsClosed(Tail(t), inTag)

\* the characters of t outside its '<...>' spans
RECURSIVE TextOutsideTags(_, _)
TextOutsideTags(t, inTag) ==
    IF t = <<>> THEN <<>>
    ELSE IF Head(t) = "<" THEN TextOutsideTags(Tail(t), TRUE)
    ELSE IF Head(t) = ">" THEN TextOutsideTags(Tail(t), FALSE)
    ELSE IF inTag THEN TextOutsideTags(Tail(t), inTag)
    ELSE <<Head(t)>> \o TextOutsideTags(Tail(t), inTag)

WellFormedDescription(d) ==
    ~d.unreadable /\ d.heading /\ d.tail # <<>> /\ TagsClosed(d.body, FALSE)

\* C2: for a well-formed Description section followed by another heading,
\* html_slice returns the section's content with every tag removed: no '<' and
\* no '>' is left, wherever the tags sit, a tag at the first character included.
C2_AllTagsStripped ==
    (spc = "done" /\ WellFormedDescription(doc))
        => /\ export = Some(TextOutsideTags(doc.body, FALSE))
           /\ \A p \in 1..Len(export.text) : export.text[p] \notin {"<", ">"}

----------------------------------------------------------------------------
(* Claims about markdown_slice. *)

\* the positions of d's sections whose heading is of one of the kinds
SectionsOfKind(d, kinds) == {p \in 1..Len(d.secs) : d.secs[p].kind \in kinds}
\* the body of the first section of one of the kinds, nothing when there is none
FirstBody(d, kinds) ==
    IF SectionsOfKind(d, kinds) = {} THEN <<>>
    ELSE d.secs[MinOf(SectionsOfKind(d, kinds))].body
\* every section heading is followed by a later heading
EverySectionClosed(d) ==
    d.terminated \/ (d.secs # <<>> /\ d.secs[Len(d.secs)].kind = "O")
ExpectedSections(d) ==
    IF SectionsOfKind(d, {"D"}) = {} THEN NoneVal
    ELSE Some(FirstBody(d, {"D"}) \o FirstBody(d, {"P", "PL"}) \o FirstBody(d, {"C", "CL"}))

\* C3: when every section heading is followed by a later heading, markdown_slice
\* returns None iff '## Description' is missing, and otherwise the Description
\* text, then the Progress text if that heading exists (plain or linked), then
\* the Completion text if that heading exists, in this order whatever their
\* order in the document, with nothing added for a missing section.
C3_SectionsInFixedOrder ==
    (spc = "done" /\ EverySectionClosed(doc)) => export = ExpectedSections(doc)

\* a linked Completion section before the Description, no Progress section
C3_Witness ==
    /\ spc = "done"
    /\ doc.terminated
    /\ Len(doc.secs) = 2
    /\ doc.secs[1].kind = "CL" /\ doc.secs[2].kind = "D"
    /\ export = Some(<<"\n", "2", "\n", "\n", "1", "\n">>)

----------------------------------------------------------------------------
(* Claims about the batch modes. *)

Ended == pc \in {"complete", "crashed"}
\* the output files the run has created
Written == {f \in Names : out[f] # "absent"}
\* the files whose read failed
ReadFailures == {f \in reads : ~fattr[f].readable}
Counted == {f \in Names : unit[f] = "counted"}

\* the file is one the mode exports when nothing fails
Due(f) ==
    /\ ~is_reserved(f)
    /\ fattr[f].readable
    /\ CASE mode = "1" -> conversion(conversion_tool, f) = "text"
         [] mode = "2" -> fattr[f].long
         [] mode = "3" -> f \in picked_files
         [] OTHER -> f \in quest_list.names

\* C4: in every batch mode a file whose read fails produces no output and the
\* batch continues: when the run has ended, every other file the mode exports
\* has been written as it would be without the failure.
C4_ReadFailureSkipsOneFile ==
    (Ended /\ ReadFailures # {} /\ ~write_failed)
        => /\ \A f \in ReadFailures : out[f] = "absent"
           /\ \A f \in Entries(listing) : Due(f) => out[f] = "full"

\* C5: in the pooled run the processed counter counts only the units whose
\* operation yielded a result, so that at the end of the run it equals the
\* number of output files written.
C5_ProcessedEqualsWritten ==
    (mode = "1" /\ pc = "complete") => total_files_processed = Cardinality(Written)

\* C5, amended: the processed counter is incremented only when a unit
\* completes (never on dispatch), once for every unit whose task returned,
\* with or without a result; at the end of the run it is the number of units
\* that returned and at least the number of output files written.
C5_ProcessedCountsReturnedUnits ==
    mode = "1"
        => /\ pc # "start" => total_files_processed = Cardinality(Counted)
           /\ \A f \in Written : unit[f] \in {"done", "counted"}
           /\ pc = "complete" => Cardinality(Written) <= total_files_processed

\* two units returned and were counted, one of them without an output file
C5_Witness ==
    /\ mode = "1" /\ pc = "complete"
    /\ total_files_processed = 2
    /\ Cardinality(Written) = 1

InvalidSelection ==
    /\ mode = "3"
    /\ \/ sub = "r" /\ n > Len(listing)
       \/ sub = "s" /\ n <= 0

\* C6: pick_rand rejects a sample size above the number of listed files and
\* every non-positive stride before any file is processed: the run fails at
\* once, no input file is read and no output file is written.
C6_InvalidSelectionRejected ==
    (InvalidSelection /\ pc # "start")
        => /\ pc = "crashed"
           /\ num = 0 /\ reads = {} /\ Written = {}

\* C7: a random sample of n of the m listed entries, 0 <= n <= m, all of them
\* readable, exports exactly n distinct files, also when the listing holds the
\* reserved file.
C7_SampleExportsExactlyN ==
    (/\ mode = "3" /\ sub = "r"
     /\ 0 <= n /\ n <= Len(listing)
     /\ \A f \in Entries(listing) : fattr[f].readable
     /\ ~write_failed
     /\ Ended)
        => Cardinality(Written) = n /\ num_file = n

\* C8: when the pooled run reports 'Process complete', every unit dispatched
\* from the listing has finished and none is queued, running or waiting for
\* its callback.
C8_CompleteOnlyWhenDrained ==
    (mode = "1" /\ pc = "complete")
        => /\ num = Len(listing)
           /\ \A f \in Entries(listing) : unit[f] \in {"counted", "failed"}

\* a run of two units, one returned and one raised, reported complete
C8_Witness ==
    /\ mode = "1" /\ pc = "complete"
    /\ Len(listing) = 2
    /\ \E f, g \in Entries(listing) : unit[f] = "counted" /\ unit[g] = "failed"
    /\ Written # {}

\* C9: in every mode the reserved file is never read and no output file of
\* its name is written, also when the selection or the name list holds it.
C9_ReservedNeverTouched ==
    DS_Store \notin reads /\ out[DS_Store] = "absent"

\* a sample that holds the reserved file, after the loop passed it
C9_Witness ==
    /\ mode = "3" /\ Ended
    /\ DS_Store \in picked_files
    /\ num = Len(listing)
    /\ Written # {}
====
